---- MODULE Spec2Model ----
(***************************************************************************)
(* Model of the Clau financial-advisory backend (src/main.py): the retry   *)
(* loop of call_gemini, the /ask handler around it, and the text passes    *)
(* fix_markdown_tables, strip_bold_inside_table_cells, soft_wrap_lines,    *)
(* ensure_disclaimer and detect_category.                                  *)
(*                                                                         *)
(* A Python str is modelled as a sequence of symbols.  A symbol is a TLA+  *)
(* string standing for the characters it spells: one character ("|", "-",  *)
(* " ", "\n") where the code looks at single characters, a whole keyword   *)
(* or phrase ("yield curve") where the code only searches for keywords.    *)
(* The length of a str is the sum of the lengths of its symbols.           *)
(***************************************************************************)
EXTENDS Integers, Sequences, FiniteSets, TLC

VARIABLES
    entry,            \* which function the run exercises
    pc,               \* position of the run
    GEMINI_API_KEY,   \* module global read by call_gemini ("" when not configured)
    contents,         \* ChatRequest.contents, a sequence of Message records
    original,         \* the first user message's text as the client sent it
    max_retries,      \* call_gemini parameter
    base_delay,       \* call_gemini parameter, in milliseconds
    attempt,          \* loop variable of call_gemini
    last_err_text,    \* local of call_gemini
    log,              \* history: one record per requests.post made
    waits,            \* history: one delay (ms) per time.sleep made
    result,           \* what call_gemini returned or raised
    response,         \* what /ask answered
    text,             \* input text of a text pass
    max_len,          \* soft_wrap_lines parameter
    idx,              \* soft_wrap_lines: index of the next input line
    in_code,          \* soft_wrap_lines: inside a fenced code block
    out,              \* output lines / first result of a text pass
    produced,         \* soft_wrap_lines: per input line, whether exempt and what it emitted
    out2              \* result of applying a text pass to its own output

vars == << entry, pc, GEMINI_API_KEY, contents, original, max_retries, base_delay,
           attempt, last_err_text, log, waits, result, response,
           text, max_len, idx, in_code, out, produced, out2 >>

callVars == << max_retries, base_delay, attempt, last_err_text, log, waits, result >>
askVars == << contents, original, response >>
textVars == << text, max_len, idx, in_code, out, produced, out2 >>

(***************************************************************************)
(* Bounds of the model.                                                    *)
(***************************************************************************)
MaxRetries == 3        \* largest max_retries a direct call_gemini run is given
MaxTextLen == 3        \* symbols in an ensure_disclaimer input
MaxLines == 3          \* lines in a fix_markdown_tables input
MaxWrapLines == 2      \* lines in a soft_wrap_lines input
MaxWrapBody == 3       \* symbols after the prefix of a soft_wrap_lines input line
MaxWrapLen == 2        \* largest max_len tried for soft_wrap_lines

(***************************************************************************)
(* Generic helpers on sequences.                                           *)
(***************************************************************************)
RECURSIVE SeqsUpTo(_, _)
SeqsUpTo(S, n) ==
    IF n = 0 THEN { << >> }
    ELSE LET shorter == SeqsUpTo(S, n - 1)
         IN  shorter \cup { Append(s, x) : s \in shorter, x \in S }

RECURSIVE Pow2(_)
Pow2(n) == IF n <= 0 THEN 1 ELSE 2 * Pow2(n - 1)

RECURSIVE SumSeq(_)
SumSeq(s) == IF s = << >> THEN 0 ELSE Head(s) + SumSeq(Tail(s))

(***************************************************************************)
(* str primitives.                                                         *)
(***************************************************************************)
\* str.lower(), symbol by symbol
LowerSym(c) ==
    CASE c = "Stocks" -> "stocks"
      [] c = "Budget" -> "budget"
      [] c = "Save" -> "save"
      [] c = "ETF" -> "etf"
      [] c = "Informational Purposes Only" -> "informational purposes only"
      [] c = "Not Professional Financial Advice" -> "not professional financial advice"
      [] OTHER -> c

lower(t) == [i \in DOMAIN t |-> LowerSym(t[i])]

\* keywords that are substrings of a longer symbol of the vocabulary
SubSymbols ==
    { <<"stock", "stocks">>, <<"bond", "bonds">>, <<"budget", "budgeting">>,
      <<"interest rate", "interest rates">>, <<"market", "market trend">> }

\* `k in t` for a keyword k and a str t
In(k, t) == \E i \in DOMAIN t : t[i] = k \/ <<k, t[i]>> \in SubSymbols

\* len(t)
StrLen(t) == SumSeq([i \in DOMAIN t |-> Len(t[i])])

(***************************************************************************)
(* Keyword tables (main.py 96-128).                                        *)
(***************************************************************************)
DISCLAIMER_TEXT ==
    << "Disclaimer: This is for ", "informational purposes only", " and ",
       "not professional financial advice",
       ". Consult a certified financial planner or tax professional for personalized guidance." >>

INVESTMENT_KEYWORDS ==
    { "stock", "stocks", "bond", "bonds", "mutual fund", "etf", "portfolio",
      "asset allocation", "diversification", "brokerage", "retirement", "401(k)",
      "roth", "ira", "market", "equity", "securities", "dividend" }

CATEGORY_MAP ==
    << [cat |-> "personal_finance",
        keys |-> { "budget", "budgeting", "save", "saving", "debt", "loan", "rent",
                   "groceries", "emergency fund", "expense", "utilities",
                   "credit score", "dti", "spend" }],
       [cat |-> "investments", keys |-> INVESTMENT_KEYWORDS],
       [cat |-> "financial_planning",
        keys |-> { "retirement", "401(k)", "roth", "ira", "college", "529", "pension",
                   "estate", "insurance", "planning", "goal" }],
       [cat |-> "financial_literacy",
        keys |-> { "compound interest", "apr", "apy", "rule of 72", "inflation",
                   "amortization", "interest rate", "depreciation" }],
       [cat |-> "market_trends",
        keys |-> { "cpi", "inflation", "interest rates", "fed", "gdp", "unemployment",
                   "oil prices", "market trend", "economic indicator", "yield curve",
                   "central bank" }] >>

\* the prompt, cut into symbols at the keywords it contains
SYSTEM_PROMPT ==
    << "\n", "You are a professional, helpful, and highly knowledgeable financial advisor chatbot named Clau.",
       "\n", "1) Advise on personal finance, ", "saving", ", ", "debt", ", investments, ",
       "retirement", ", ", "college", " ", "planning", ", and financial literacy.",
       "\n", "3) When answering about ", "market", " trends or economic indicators, always include:",
       "\n", "8) End with a bold Final Recommendation line, e.g., **Final Recommendation: ",
       "Save", " $200 and cap wants at $300.**", "\n" >>

(***************************************************************************)
(* detect_category, is_investment_related, ensure_disclaimer.              *)
(***************************************************************************)
AnyKey(keys, t) == \E k \in keys : In(k, t)

RECURSIVE FirstCategory(_, _)
FirstCategory(groups, t) ==
    IF groups = << >> THEN "none"
    ELSE IF AnyKey(Head(groups).keys, t) THEN Head(groups).cat
    ELSE FirstCategory(Tail(groups), t)

detect_category(s) ==
    LET t == lower(s)
        c == FirstCategory(CATEGORY_MAP, t)
    IN  IF c # "none" THEN c
        ELSE IF AnyKey(INVESTMENT_KEYWORDS, t) THEN "investments"
        ELSE "personal_finance"

is_investment_related(s) == AnyKey(INVESTMENT_KEYWORDS, lower(s))

HasDisclaimer(answer) ==
    /\ In("informational purposes only", lower(answer))
    /\ In("not professional financial advice", lower(answer))

EndsWithNewline(answer) == answer # << >> /\ answer[Len(answer)] = "\n"

\* ensure_disclaimer without `and not has`: appended whenever investment-related
ensure_disclaimer_always(answer) ==
    IF is_investment_related(answer)
    THEN LET a1 == IF EndsWithNewline(answer) THEN answer ELSE Append(answer, "\n")
         IN  [answer |-> a1 \o << "\n" >> \o DISCLAIMER_TEXT, has |-> TRUE]
    ELSE [answer |-> answer, has |-> HasDisclaimer(answer)]

\* returns the pair (answer, has) as a record
ensure_disclaimer(answer) ==
    LET has == HasDisclaimer(answer)
    IN  IF is_investment_related(answer) /\ ~has
        THEN LET a1 == IF EndsWithNewline(answer) THEN answer ELSE Append(answer, "\n")
             IN  [answer |-> a1 \o << "\n" >> \o DISCLAIMER_TEXT, has |-> TRUE]
        ELSE [answer |-> answer, has |-> has]

(***************************************************************************)
(* Lines: str.splitlines, "\n".join, str.strip, str.split.                 *)
(***************************************************************************)
\* s.split(sep) for a one-character separator: the pieces between its occurrences
Split(s, sep) ==
    LET at == { i \in DOMAIN s : s[i] = sep }
        n == Cardinality(at)
        nth(k) == CHOOSE p \in at : Cardinality({ q \in at : q < p }) = k - 1
    IN  [k \in 1..(n + 1) |->
            SubSeq(s, IF k = 1 THEN 1 ELSE nth(k - 1) + 1,
                      IF k = n + 1 THEN Len(s) ELSE nth(k) - 1)]

\* s.splitlines(): a final line break opens no further line
splitlines(s) ==
    LET parts == Split(s, "\n")
    IN  IF parts[Len(parts)] = << >> THEN SubSeq(parts, 1, Len(parts) - 1) ELSE parts

\* sep.join(lines) for a one-character separator
RECURSIVE Join(_, _)
Join(lines, sep) ==
    IF lines = << >> THEN << >>
    ELSE IF Len(lines) = 1 THEN Head(lines)
    ELSE Head(lines) \o << sep >> \o Join(Tail(lines), sep)

RECURSIVE LStrip(_)
LStrip(s) == IF s # << >> /\ Head(s) = " " THEN LStrip(Tail(s)) ELSE s

RECURSIVE RStrip(_)
RStrip(s) ==
    IF s # << >> /\ s[Len(s)] = " " THEN RStrip(SubSeq(s, 1, Len(s) - 1)) ELSE s

strip(s) == RStrip(LStrip(s))

startswith(s, c) == s # << >> /\ s[1] = c

(***************************************************************************)
(* Text pattern matchers (main.py 159-162, 196).                           *)
(***************************************************************************)
\* TABLE_HEADER_RE.match(s) for a stripped line s: ^\|(.+?)\|\s*$
TABLE_HEADER_RE(s) == Len(s) >= 3 /\ s[1] = "|" /\ s[Len(s)] = "|"

\* first position >= i of s that holds no blank
RECURSIVE SkipSpaces(_, _)
SkipSpaces(s, i) == IF i <= Len(s) /\ s[i] = " " THEN SkipSpaces(s, i + 1) ELSE i

\* first position >= i of s that holds no dash
RECURSIVE SkipDashes(_, _)
SkipDashes(s, i) == IF i <= Len(s) /\ s[i] = "-" THEN SkipDashes(s, i + 1) ELSE i

\* \s*:?-{3,}\s* matched at position i: the position after it, 0 when it fails
SepCell(s, i) ==
    LET j == SkipSpaces(s, i)
        k == IF j <= Len(s) /\ s[j] = ":" THEN j + 1 ELSE j
        d == SkipDashes(s, k)
    IN  IF d - k >= 3 THEN SkipSpaces(s, d) ELSE 0

\* (\|\s*:?-{3,}\s*)+ matched greedily at position i, n groups matched so far
RECURSIVE SepGroups(_, _, _)
SepGroups(s, i, n) ==
    IF i <= Len(s) /\ s[i] = "|" /\ SepCell(s, i + 1) # 0
    THEN SepGroups(s, SepCell(s, i + 1), n + 1)
    ELSE [pos |-> i, n |-> n]

\* ^\|\s*:?-{3,}\s*(\|\s*:?-{3,}\s*)+\|?\s*$ on line.strip()
_looks_like_separator(line) ==
    LET s == strip(line)
    IN  /\ startswith(s, "|")
        /\ SepCell(s, 2) # 0
        /\ LET g == SepGroups(s, SepCell(s, 2), 0)
           IN  /\ g.n >= 1
               /\ \/ g.pos = Len(s) + 1
                  \/ g.pos <= Len(s) /\ s[g.pos] = "|"
                     /\ SkipSpaces(s, g.pos + 1) = Len(s) + 1

(***************************************************************************)
(* fix_markdown_tables (main.py 164-194).                                  *)
(***************************************************************************)
SEP_DASHES == 10

Dashes == [i \in 1..SEP_DASHES |-> "-"]

\* [c.strip() for c in line.strip().split('|') if c.strip() != '']
TableCols(line) ==
    LET cells == Split(strip(line), "|")
    IN  SelectSeq([i \in DOMAIN cells |-> strip(cells[i])], LAMBDA c : c # << >>)

\* "|" + "|".join(["----------"] * n) + "|"
SeparatorFor(n) == << "|" >> \o Join([i \in 1..n |-> Dashes], "|") \o << "|" >>

IsTableHeader(line) == In("|", strip(line)) /\ TABLE_HEADER_RE(strip(line))

\* first j >= i with lines[j].strip() != "", Len(lines)+1 when there is none
RECURSIVE SkipBlankLines(_, _)
SkipBlankLines(lines, j) ==
    IF j <= Len(lines) /\ strip(lines[j]) = << >> THEN SkipBlankLines(lines, j + 1) ELSE j

\* what one iteration of the while loop appends to out for line i
TableStep(lines, i) ==
    LET line == lines[i]
        j == SkipBlankLines(lines, i + 1)
        blanks == SubSeq(lines, i + 1, j - 1)
        cols == TableCols(line)
        sep == IF cols # << >> THEN << SeparatorFor(Len(cols)) >> ELSE << >>
    IN  IF ~IsTableHeader(line) THEN << line >>
        ELSE IF j <= Len(lines)
             THEN IF ~_looks_like_separator(lines[j])
                  THEN << line >> \o blanks \o sep
                  ELSE << line >> \o blanks
             ELSE << line >> \o blanks \o sep

RECURSIVE TableLoop(_, _)
TableLoop(lines, i) ==
    IF i > Len(lines) THEN << >> ELSE TableStep(lines, i) \o TableLoop(lines, i + 1)

fix_markdown_tables(s) == Join(TableLoop(splitlines(s), 1), "\n")

(***************************************************************************)
(* strip_bold_inside_table_cells (main.py 196-219).                        *)
(***************************************************************************)
NoBar(s, from, to) == \A k \in from..to : s[k] # "|"

\* BOLD_IN_CELL_RE matches s with its first group at p and the two ** at a and b:
\* (\|[^|\n]*?)\*\*(.+?)\*\*([^|\n]*?\|)
BoldMatchAt(s, p, a, b) ==
    /\ s[p] = "|"
    /\ NoBar(s, p + 1, a - 1)
    /\ s[a] = "**"
    /\ b >= a + 2
    /\ s[b] = "**"
    /\ \E c \in (b + 1)..Len(s) : s[c] = "|" /\ NoBar(s, b + 1, c - 1)

BoldMatches(s) ==
    { m \in (DOMAIN s) \X (DOMAIN s) \X (DOMAIN s) : BoldMatchAt(s, m[1], m[2], m[3]) }

\* BOLD_IN_CELL_RE.search: leftmost start, then the lazy quantifiers' first choice
BoldSearch(s) ==
    CHOOSE m \in BoldMatches(s) :
        \A o \in BoldMatches(s) :
            \/ m[1] < o[1]
            \/ m[1] = o[1] /\ m[2] < o[2]
            \/ m[1] = o[1] /\ m[2] = o[2] /\ m[3] <= o[3]

RemoveAt(s, a) == SubSeq(s, 1, a - 1) \o SubSeq(s, a + 1, Len(s))

RECURSIVE StripBoldLoop(_)
StripBoldLoop(s) ==
    IF BoldMatches(s) = { } THEN s
    ELSE LET m == BoldSearch(s)
         IN  StripBoldLoop(RemoveAt(RemoveAt(s, m[3]), m[2]))

_replace_line(line) == IF _looks_like_separator(line) THEN line ELSE StripBoldLoop(line)

strip_bold_inside_table_cells(s) ==
    LET lines == splitlines(s)
    IN  Join([i \in DOMAIN lines |->
                 IF startswith(strip(lines[i]), "|") THEN _replace_line(lines[i])
                 ELSE lines[i]], "\n")

(***************************************************************************)
(* soft_wrap_lines (main.py 221-260).                                      *)
(***************************************************************************)
DEFAULT_MAX_LEN == 109

\* the three-backtick fence marker, written as one symbol of three characters
FENCE == "~~~"

IsFence(line) == startswith(strip(line), FENCE)

\* the lines copied verbatim although no fence: lines 238-243
IsExempt(line, inCode) ==
    \/ inCode
    \/ startswith(strip(line), "|")
    \/ _looks_like_separator(line)
    \/ startswith(strip(line), ">")
    \/ In("http://", line)
    \/ In("https://", line)

\* the for loop over words: what it appends to out, and the last cur
RECURSIVE WrapWords(_, _, _)
WrapWords(words, cur, maxLen) ==
    IF words = << >> THEN IF cur # << >> THEN << cur >> ELSE << >>
    ELSE LET w == Head(words)
         IN  IF StrLen(cur) + (IF cur # << >> THEN 1 ELSE 0) + StrLen(w) <= maxLen
             THEN WrapWords(Tail(words), IF cur = << >> THEN w ELSE cur \o << " " >> \o w, maxLen)
             ELSE << cur >> \o WrapWords(Tail(words), w, maxLen)

\* what one iteration of the for loop over lines appends to out
WrapLine(line, inCode, maxLen) ==
    IF IsFence(line) \/ IsExempt(line, inCode) \/ StrLen(line) <= maxLen
    THEN << line >>
    ELSE WrapWords(Split(line, " "), << >>, maxLen)

RECURSIVE WrapLoop(_, _, _, _)
WrapLoop(lines, i, inCode, maxLen) ==
    IF i > Len(lines) THEN << >>
    ELSE WrapLine(lines[i], inCode, maxLen)
         \o WrapLoop(lines, i + 1, IF IsFence(lines[i]) THEN ~inCode ELSE inCode, maxLen)

soft_wrap_lines(s, maxLen) == Join(WrapLoop(splitlines(s), 1, FALSE, maxLen), "\n")

(***************************************************************************)
(* call_gemini (main.py 265-294).                                          *)
(***************************************************************************)
DEFAULT_MAX_RETRIES == 3
DEFAULT_BASE_DELAY == 800

\* a status the loop retries, as a faulty revision would have it: 401 retried too
TransientStatuses_retry401 == { 401, 429, 500, 502, 503, 504 }

\* resp.status_code in (429, 500, 502, 503, 504)
TransientStatuses == { 429, 500, 502, 503, 504 }

\* the status codes the upstream is made to answer with
Statuses == { 200, 401, 404, 429, 500, 502, 503, 504 }
ErrTexts == { << >>, << "upstream error" >> }
BaseDelays == { DEFAULT_BASE_DELAY, 100 }

\* the count as a faulty revision would report it: the attempts made, not the failed ones
RetriesUsed_counting_attempts(a) == a

\* retries reported on a 200 at attempt number a
RetriesUsed(a) == a - 1

\* the argument of time.sleep after failed attempt number a
BackoffDelay(bd, a) == bd * Pow2(a - 1)

HTTPException(status, detail) == [kind |-> "raise", status_code |-> status, detail |-> detail]

NoResult == [kind |-> "none"]

\* texts the upstream may answer with (resp.json() of a 200)
Answers ==
    { << "Budget", " 50/30/20 rule", "\n", "\n", "**Final Recommendation: ", "Save", " 20% of income**" >>,
      << "Buy ", "Stocks", " and hold." >>,
      << "The ", "yield curve", " inverted." >> }

\* resp.json() of a 200: a body with a text in the expected place (possibly the
\* empty text), or JSON of another shape.  A 200 carries JSON, as the upstream
\* interface has it; what resp.json() does on other bodies is library code.
Bodies == { [shape |-> "text", text |-> a] : a \in Answers }
          \cup { [shape |-> "text", text |-> << >>], [shape |-> "invalid"] }

\* call_gemini without its guard on the key: the loop is entered all the same
CallNoKey_unguarded ==
    /\ pc = "call"
    /\ GEMINI_API_KEY = ""
    /\ last_err_text' = << >>
    /\ max_retries >= 1
    /\ attempt' = 1
    /\ pc' = "post"
    /\ UNCHANGED << entry, GEMINI_API_KEY, max_retries, base_delay, log, waits, result >>
    /\ UNCHANGED askVars
    /\ UNCHANGED textVars

\* if not GEMINI_API_KEY: raise HTTPException(500)
CallNoKey ==
    /\ pc = "call"
    /\ GEMINI_API_KEY = ""
    /\ result' = HTTPException(500, << "GEMINI_API_KEY not configured" >>)
    /\ pc' = "raised"
    /\ UNCHANGED << entry, GEMINI_API_KEY, max_retries, base_delay, attempt,
                    last_err_text, log, waits >>
    /\ UNCHANGED askVars
    /\ UNCHANGED textVars

\* the first iteration of `for attempt in range(1, max_retries + 1)`
CallBegin ==
    /\ pc = "call"
    /\ GEMINI_API_KEY # ""
    /\ last_err_text' = << >>
    /\ IF max_retries >= 1
       THEN /\ attempt' = 1
            /\ pc' = "post"
            /\ UNCHANGED result
       ELSE /\ result' = HTTPException(502, << "AI service temporarily unavailable" >>)
            /\ pc' = "raised"
            /\ UNCHANGED attempt
    /\ UNCHANGED << entry, GEMINI_API_KEY, max_retries, base_delay, log, waits >>
    /\ UNCHANGED askVars
    /\ UNCHANGED textVars

\* the loop with an off-by-one bound: range(1, max_retries + 2)
NextIteration_one_more(err) ==
    IF attempt <= max_retries
    THEN /\ attempt' = attempt + 1
         /\ pc' = "post"
         /\ UNCHANGED result
    ELSE /\ result' = HTTPException(502, IF err # << >> THEN err
                                         ELSE << "AI service temporarily unavailable" >>)
         /\ pc' = "raised"
         /\ UNCHANGED attempt

\* what follows a failed attempt that is retried: the next iteration, or the
\* raise after the loop (line 294) when the loop is over
NextIteration(err) ==
    IF attempt < max_retries
    THEN /\ attempt' = attempt + 1
         /\ pc' = "post"
         /\ UNCHANGED result
    ELSE /\ result' = HTTPException(502, IF err # << >> THEN err
                                         ELSE << "AI service temporarily unavailable" >>)
         /\ pc' = "raised"
         /\ UNCHANGED attempt

\* resp.status_code == 200
PostOK ==
    /\ pc = "post"
    /\ \E body \in Bodies :
        /\ log' = Append(log, [kind |-> "status", status |-> 200, body |-> body])
        /\ result' = [kind |-> "return", json |-> body, retries |-> RetriesUsed(attempt)]
    /\ pc' = "returned"
    /\ UNCHANGED << entry, GEMINI_API_KEY, max_retries, base_delay, attempt,
                    last_err_text, waits >>
    /\ UNCHANGED askVars
    /\ UNCHANGED textVars

\* resp.status_code in (429, 500, 502, 503, 504)
PostTransient ==
    /\ pc = "post"
    /\ \E s \in Statuses, t \in ErrTexts :
        /\ s \in TransientStatuses
        /\ log' = Append(log, [kind |-> "status", status |-> s, body |-> t])
        /\ last_err_text' = t
        /\ waits' = Append(waits, BackoffDelay(base_delay, attempt))
        /\ NextIteration(t)
    /\ UNCHANGED << entry, GEMINI_API_KEY, max_retries, base_delay >>
    /\ UNCHANGED askVars
    /\ UNCHANGED textVars

\* any other status: raise HTTPException(resp.status_code, resp.text)
PostOther ==
    /\ pc = "post"
    /\ \E s \in Statuses, t \in ErrTexts :
        /\ s # 200
        /\ s \notin TransientStatuses
        /\ log' = Append(log, [kind |-> "status", status |-> s, body |-> t])
        /\ result' = HTTPException(s, t)
    /\ pc' = "raised"
    /\ UNCHANGED << entry, GEMINI_API_KEY, max_retries, base_delay, attempt,
                    last_err_text, waits >>
    /\ UNCHANGED askVars
    /\ UNCHANGED textVars

\* the Timeout handler without its test of the last attempt: it sleeps and
\* leaves the loop, and line 294 raises
PostTimeout_no_last_check ==
    /\ pc = "post"
    /\ log' = Append(log, [kind |-> "timeout"])
    /\ waits' = Append(waits, BackoffDelay(base_delay, attempt))
    /\ NextIteration(last_err_text)
    /\ UNCHANGED << entry, GEMINI_API_KEY, max_retries, base_delay, last_err_text >>
    /\ UNCHANGED askVars
    /\ UNCHANGED textVars

\* except requests.exceptions.Timeout
PostTimeout ==
    /\ pc = "post"
    /\ log' = Append(log, [kind |-> "timeout"])
    /\ IF attempt = max_retries
       THEN /\ result' = HTTPException(504, << "Request to AI service timed out" >>)
            /\ pc' = "raised"
            /\ UNCHANGED << attempt, waits >>
       ELSE /\ waits' = Append(waits, BackoffDelay(base_delay, attempt))
            /\ NextIteration(last_err_text)
    /\ UNCHANGED << entry, GEMINI_API_KEY, max_retries, base_delay, last_err_text >>
    /\ UNCHANGED askVars
    /\ UNCHANGED textVars

\* except requests.exceptions.RequestException
PostRequestException ==
    /\ pc = "post"
    /\ log' = Append(log, [kind |-> "error"])
    /\ IF attempt = max_retries
       THEN /\ result' = HTTPException(502, << "AI service temporarily unavailable" >>)
            /\ pc' = "raised"
            /\ UNCHANGED << attempt, waits >>
       ELSE /\ waits' = Append(waits, BackoffDelay(base_delay, attempt))
            /\ NextIteration(last_err_text)
    /\ UNCHANGED << entry, GEMINI_API_KEY, max_retries, base_delay, last_err_text >>
    /\ UNCHANGED askVars
    /\ UNCHANGED textVars

(***************************************************************************)
(* ask_question (main.py 303-358).                                         *)
(***************************************************************************)
Message(role, parts) == [role |-> role, parts |-> parts]

Questions ==
    { << "How should I ", "budget", "?" >>,
      << "What is the ", "yield curve", "?" >>,
      << "Are ", "Stocks", " risky?" >>,
      << "Hello" >> }

\* the request bodies tried: empty, one user turn, a model turn before the user
\* turn, no user turn at all, a user turn without parts
ContentsSet ==
    { << >>,
      << Message("model", << << "Hi" >> >>) >>,
      << Message("user", << >>) >> }
    \cup { << Message("user", << q >>) >> : q \in Questions }
    \cup { << Message("model", << << "Hi" >> >>), Message("User", << q >>) >> : q \in Questions }

RoleLower(r) == IF r = "User" THEN "user" ELSE r

\* index of next((m for m in data.contents if m.role.lower() == "user"), None), 0 for None
FirstUser(cs) ==
    IF \E i \in DOMAIN cs : RoleLower(cs[i].role) = "user"
    THEN CHOOSE i \in DOMAIN cs :
            /\ RoleLower(cs[i].role) = "user"
            /\ \A j \in 1..(i - 1) : RoleLower(cs[j].role) # "user"
    ELSE 0

\* first_user and first_user.parts
HasFirstPart(cs) == FirstUser(cs) # 0 /\ cs[FirstUser(cs)].parts # << >>

FirstPartText(cs) == cs[FirstUser(cs)].parts[1]

\* f"{SYSTEM_PROMPT}\n\nUser question:\n{original}"
Injected(q) == SYSTEM_PROMPT \o << "\n", "\n", "User question:", "\n" >> \o q

\* lines 336-340
PostProcess(raw) ==
    ensure_disclaimer(
        soft_wrap_lines(strip_bold_inside_table_cells(fix_markdown_tables(raw)),
                        DEFAULT_MAX_LEN))

\* lines 343-346: category of the first user part as it stands now, else of the answer
CategoryOf(cs, answer) ==
    LET user_text == IF HasFirstPart(cs) THEN FirstPartText(cs) ELSE << >>
    IN  detect_category(IF user_text # << >> THEN user_text ELSE answer)

\* if not data.contents: raise HTTPException(400)
AskEmpty ==
    /\ entry = "ask"
    /\ pc = "ask"
    /\ contents = << >>
    /\ response' = [status |-> 400, detail |-> << "contents cannot be empty" >>]
    /\ pc' = "done"
    /\ UNCHANGED << entry, GEMINI_API_KEY, contents, original >>
    /\ UNCHANGED callVars
    /\ UNCHANGED textVars

\* lines 315-323: inject the prompt and enter call_gemini(payload)
AskInject ==
    /\ entry = "ask"
    /\ pc = "ask"
    /\ contents # << >>
    /\ contents' = IF HasFirstPart(contents)
                   THEN [contents EXCEPT ![FirstUser(contents)].parts[1] =
                            Injected(FirstPartText(contents))]
                   ELSE contents
    /\ max_retries' = DEFAULT_MAX_RETRIES
    /\ base_delay' = DEFAULT_BASE_DELAY
    /\ pc' = "call"
    /\ UNCHANGED << entry, GEMINI_API_KEY, original, response,
                    attempt, last_err_text, log, waits, result >>
    /\ UNCHANGED textVars

\* an HTTPException raised by call_gemini becomes the response
AskRaise ==
    /\ entry = "ask"
    /\ pc = "raised"
    /\ response' = [status |-> result.status_code, detail |-> result.detail]
    /\ pc' = "done"
    /\ UNCHANGED << entry, GEMINI_API_KEY, contents, original >>
    /\ UNCHANGED callVars
    /\ UNCHANGED textVars

\* lines 327-334: the body has not the expected shape, or its text is empty
AskBadBody ==
    /\ entry = "ask"
    /\ pc = "returned"
    /\ \/ result.json.shape = "invalid"
          /\ response' = [status |-> 502, detail |-> << "Invalid response from AI service" >>]
       \/ result.json.shape = "text" /\ result.json.text = << >>
          /\ response' = [status |-> 502, detail |-> << "AI service returned empty response" >>]
    /\ pc' = "done"
    /\ UNCHANGED << entry, GEMINI_API_KEY, contents, original >>
    /\ UNCHANGED callVars
    /\ UNCHANGED textVars

\* lines 336-358; of meta, the fields computed from the request and the answer
\* (model is configuration, timestamp the clock)
AskSuccess ==
    /\ entry = "ask"
    /\ pc = "returned"
    /\ result.json.shape = "text"
    /\ result.json.text # << >>
    /\ LET done == PostProcess(result.json.text)
       IN  response' =
             [status |-> 200,
              answer |-> done.answer,
              meta |-> [category |-> CategoryOf(contents, done.answer),
                        has_disclaimer |-> done.has,
                        retries |-> result.retries,
                        response_length |-> StrLen(done.answer)]]
    /\ pc' = "done"
    /\ UNCHANGED << entry, GEMINI_API_KEY, contents, original >>
    /\ UNCHANGED callVars
    /\ UNCHANGED textVars

(***************************************************************************)
(* The requests and direct calls of call_gemini.                           *)
(***************************************************************************)
CallInit ==
    /\ attempt = 0
    /\ last_err_text = << >>
    /\ log = << >>
    /\ waits = << >>
    /\ result = NoResult

AskIdle ==
    /\ GEMINI_API_KEY = "key"
    /\ contents = << >>
    /\ original = << >>
    /\ response = NoResult
    /\ max_retries = 0
    /\ base_delay = 0
    /\ CallInit

TextIdle ==
    /\ text = << >>
    /\ max_len = 0
    /\ idx = 0
    /\ in_code = FALSE
    /\ out = << >>
    /\ produced = << >>
    /\ out2 = << >>

Init ==
    /\ GEMINI_API_KEY \in { "", "key" }
    /\ CallInit
    /\ TextIdle
    /\ response = NoResult
    /\ \/ /\ entry = "call_gemini"
          /\ pc = "call"
          /\ contents = << >>
          /\ original = << >>
          /\ max_retries \in 0..MaxRetries
          /\ base_delay \in BaseDelays
       \/ /\ entry = "ask"
          /\ pc = "ask"
          /\ contents \in ContentsSet
          /\ original = IF HasFirstPart(contents) THEN FirstPartText(contents) ELSE << >>
          /\ max_retries = 0
          /\ base_delay = 0

Next ==
    \/ AskEmpty
    \/ AskInject
    \/ CallNoKey
    \/ CallBegin
    \/ PostOK
    \/ PostTransient
    \/ PostOther
    \/ PostTimeout
    \/ PostRequestException
    \/ AskRaise
    \/ AskBadBody
    \/ AskSuccess

Spec == Init /\ [][Next]_vars

(***************************************************************************)
(* fix_markdown_tables applied once and then to its own output.            *)
(***************************************************************************)
Sep2 == << "|", "-", "-", "-", "|", "-", "-", "-", "|" >>

TableLineSet ==
    { << >>,
      << "a" >>,
      << "|", "a", "|", "b", "|" >>,
      << "|", "1", "|", "2", "|" >>,
      << "|", "a", "|" >>,
      Sep2,
      << "|", " ", ":", "-", "-", "-", " ", "|", "-", "-", "-" >> }

TableTexts ==
    LET joined == { Join(ls, "\n") : ls \in SeqsUpTo(TableLineSet, MaxLines) }
    IN  joined \cup { Append(t, "\n") : t \in joined }

TablesInit ==
    /\ AskIdle
    /\ entry = "fix_markdown_tables"
    /\ pc = "tables"
    /\ text \in TableTexts
    /\ max_len = 0
    /\ idx = 0
    /\ in_code = FALSE
    /\ out = << >>
    /\ produced = << >>
    /\ out2 = << >>

TablesOnce ==
    /\ pc = "tables"
    /\ out' = fix_markdown_tables(text)
    /\ pc' = "once"
    /\ UNCHANGED << entry, GEMINI_API_KEY, text, max_len, idx, in_code, produced, out2 >>
    /\ UNCHANGED callVars
    /\ UNCHANGED askVars

TablesTwice ==
    /\ entry = "fix_markdown_tables"
    /\ pc = "once"
    /\ out2' = fix_markdown_tables(out)
    /\ pc' = "twice"
    /\ UNCHANGED << entry, GEMINI_API_KEY, text, max_len, idx, in_code, produced, out >>
    /\ UNCHANGED callVars
    /\ UNCHANGED askVars

TablesNext == TablesOnce \/ TablesTwice

SpecTables == TablesInit /\ [][TablesNext]_vars

(***************************************************************************)
(* ensure_disclaimer applied once and then to its own output.              *)
(***************************************************************************)
DisclaimerVocab ==
    { "Stocks", "Hello", "\n", "informational purposes only",
      "Not Professional Financial Advice" }

DisclaimerInit ==
    /\ AskIdle
    /\ entry = "ensure_disclaimer"
    /\ pc = "disclaimer"
    /\ text \in SeqsUpTo(DisclaimerVocab, MaxTextLen)
    /\ max_len = 0
    /\ idx = 0
    /\ in_code = FALSE
    /\ out = << >>
    /\ produced = << >>
    /\ out2 = << >>

DisclaimerOnce ==
    /\ pc = "disclaimer"
    /\ out' = ensure_disclaimer(text)
    /\ pc' = "once"
    /\ UNCHANGED << entry, GEMINI_API_KEY, text, max_len, idx, in_code, produced, out2 >>
    /\ UNCHANGED callVars
    /\ UNCHANGED askVars

DisclaimerTwice ==
    /\ entry = "ensure_disclaimer"
    /\ pc = "once"
    /\ out2' = ensure_disclaimer(out.answer)
    /\ pc' = "twice"
    /\ UNCHANGED << entry, GEMINI_API_KEY, text, max_len, idx, in_code, produced, out >>
    /\ UNCHANGED callVars
    /\ UNCHANGED askVars

DisclaimerNext == DisclaimerOnce \/ DisclaimerTwice

SpecDisclaimer == DisclaimerInit /\ [][DisclaimerNext]_vars

(***************************************************************************)
(* soft_wrap_lines, one iteration of its loop over the lines per step.     *)
(***************************************************************************)
WrapLineSet ==
    { prefix \o body :
        prefix \in { << >>, << "|" >>, << ">" >>, << FENCE >>, << "http://" >> },
        body \in SeqsUpTo({ "a", " " }, MaxWrapBody) }

WrapTexts == { Join(ls, "\n") : ls \in SeqsUpTo(WrapLineSet, MaxWrapLines) }

WrapInit ==
    /\ AskIdle
    /\ entry = "soft_wrap_lines"
    /\ pc = "wrap"
    /\ text \in WrapTexts
    /\ max_len \in 1..MaxWrapLen
    /\ idx = 1
    /\ in_code = FALSE
    /\ out = << >>
    /\ produced = << >>
    /\ out2 = << >>

WrapCurrent == splitlines(text)[idx]

WrapAdvance(exempt) ==
    LET emitted == WrapLine(WrapCurrent, in_code, max_len)
    IN  /\ out' = out \o emitted
        /\ produced' = Append(produced, [line |-> WrapCurrent, exempt |-> exempt,
                                         lines |-> emitted])
        /\ idx' = idx + 1
        /\ UNCHANGED << entry, pc, GEMINI_API_KEY, text, max_len, out2 >>
        /\ UNCHANGED callVars
        /\ UNCHANGED askVars

\* lines 234-237
SoftWrapFence ==
    /\ pc = "wrap"
    /\ idx <= Len(splitlines(text))
    /\ IsFence(WrapCurrent)
    /\ in_code' = ~in_code
    /\ WrapAdvance(TRUE)

\* lines 238-243
SoftWrapExempt ==
    /\ pc = "wrap"
    /\ idx <= Len(splitlines(text))
    /\ ~IsFence(WrapCurrent)
    /\ IsExempt(WrapCurrent, in_code)
    /\ UNCHANGED in_code
    /\ WrapAdvance(TRUE)

\* lines 245-247
SoftWrapShort ==
    /\ pc = "wrap"
    /\ idx <= Len(splitlines(text))
    /\ ~IsFence(WrapCurrent)
    /\ ~IsExempt(WrapCurrent, in_code)
    /\ StrLen(WrapCurrent) <= max_len
    /\ UNCHANGED in_code
    /\ WrapAdvance(FALSE)

\* lines 249-259
SoftWrapLong ==
    /\ pc = "wrap"
    /\ idx <= Len(splitlines(text))
    /\ ~IsFence(WrapCurrent)
    /\ ~IsExempt(WrapCurrent, in_code)
    /\ StrLen(WrapCurrent) > max_len
    /\ UNCHANGED in_code
    /\ WrapAdvance(FALSE)

\* line 260
SoftWrapReturn ==
    /\ pc = "wrap"
    /\ idx > Len(splitlines(text))
    /\ out2' = Join(out, "\n")
    /\ pc' = "done"
    /\ UNCHANGED << entry, GEMINI_API_KEY, text, max_len, idx, in_code, out, produced >>
    /\ UNCHANGED callVars
    /\ UNCHANGED askVars

WrapNext ==
    \/ SoftWrapFence
    \/ SoftWrapExempt
    \/ SoftWrapShort
    \/ SoftWrapLong
    \/ SoftWrapReturn

SpecWrap == WrapInit /\ [][WrapNext]_vars

(***************************************************************************)
(* Properties.                                                             *)
(***************************************************************************)
\* the transient statuses as the specification lists them
ListedTransient == { 429, 500, 502, 503, 504 }

IsStatusIn(e, S) == e.kind = "status" /\ e.status \in S

LogStatuses == [k \in DOMAIN log |-> IF log[k].kind = "status" THEN log[k].status ELSE 0]

LogKinds == [k \in DOMAIN log |-> log[k].kind]

C2_AllTransientExhausts ==
    /\ Len(log) <= max_retries
    /\ ( /\ GEMINI_API_KEY # ""
         /\ result.kind # "none"
         /\ \A k \in DOMAIN log : IsStatusIn(log[k], ListedTransient) )
       => /\ Len(log) = max_retries
          /\ result.kind = "raise"
          /\ result.status_code = 502

C2_Witness ==
    /\ max_retries = DEFAULT_MAX_RETRIES
    /\ LogStatuses = << 500, 500, 500 >>
    /\ result.kind = "raise"
    /\ result.status_code = 502

\* C3: a status that is neither 200 nor transient ends the call at once, on
\* whichever attempt it comes: it is the last attempt made, the error raised
\* carries that status and body, and no wait follows it (the waits made are
\* those of the attempts before it).
C3_PermanentFailsAtOnce ==
    \A k \in DOMAIN log :
        (log[k].kind = "status" /\ log[k].status \notin (ListedTransient \cup { 200 })) =>
            /\ k = Len(log)
            /\ result = [kind |-> "raise", status_code |-> log[k].status,
                         detail |-> log[k].body]
            /\ Len(waits) = k - 1

C3_Witness ==
    /\ LogStatuses = << 503, 401 >>
    /\ result.kind = "raise"
    /\ result.status_code = 401
    /\ Len(waits) = 1

C7_CategoryOfOriginal ==
    (entry = "ask" /\ pc = "done" /\ response.status = 200 /\ HasFirstPart(contents)) =>
        response.meta.category = detect_category(original)

\* C9: the k-th wait is base_delay * 2^(k-1), at most max_retries - 1 waits
\* are made, and they sum to at most base_delay * (2^0 + ... + 2^(N-2)).
C9_BackoffBounded ==
    max_retries >= 1 =>
        /\ \A k \in DOMAIN waits : waits[k] = base_delay * Pow2(k - 1)
        /\ Len(waits) <= max_retries - 1
        /\ SumSeq(waits) <= base_delay * (Pow2(max_retries - 1) - 1)

\* C10: when all max_retries attempts fail with a transient status or a
\* timeout, the error raised has status 504 if the last attempt timed out and
\* 502 otherwise, whatever the earlier attempts were.
C10_LastAttemptDecides ==
    ( /\ max_retries >= 1
      /\ Len(log) = max_retries
      /\ result.kind # "none"
      /\ \A k \in DOMAIN log : log[k].kind = "timeout" \/ IsStatusIn(log[k], ListedTransient) )
    => /\ result.kind = "raise"
       /\ result.status_code = IF log[Len(log)].kind = "timeout" THEN 504 ELSE 502

C10_Witness ==
    /\ LogKinds = << "timeout", "timeout", "status" >>
    /\ log[3].status = 503
    /\ result.kind = "raise"
    /\ result.status_code = 502

\* a header row, then a valid separator row, then data rows only
ValidTable(lines) ==
    /\ Len(lines) >= 2
    /\ IsTableHeader(lines[1]) /\ ~_looks_like_separator(lines[1])
    /\ _looks_like_separator(lines[2])
    /\ \A k \in 3..Len(lines) : IsTableHeader(lines[k]) /\ ~_looks_like_separator(lines[k])

\* C5: fix_markdown_tables applied to its own output changes nothing, and a
\* table whose header is already followed by a valid separator comes out as
\* it went in.
C5_TableRepairIdempotent ==
    pc = "twice" =>
        /\ out2 = out
        /\ ValidTable(splitlines(text)) => splitlines(out) = splitlines(text)

\* C6: every line soft_wrap_lines emits for an input line that is not exempt
\* is at most max_len characters long.
C6_WrappedWithinMax ==
    \A k \in DOMAIN produced :
        ~produced[k].exempt =>
            \A l \in DOMAIN produced[k].lines : StrLen(produced[k].lines[l]) <= max_len

\* C8: ensure_disclaimer applied to the text it returned gives the same text
\* and the same boolean again.
C8_DisclaimerIdempotent ==
    pc = "twice" => (out2.answer = out.answer /\ out2.has = out.has)

C8_Witness ==
    /\ pc = "twice"
    /\ is_investment_related(text)
    /\ ~HasDisclaimer(text)
    /\ out.answer # text
    /\ out.has
    /\ out2 = out

====
